---------------------------- MODULE Spec2Model ----------------------------
(***************************************************************************)
(* Model of fsearch's configuration store (src/src/config.c).              *)
(*                                                                         *)
(* State: one FsearchConfig record held by the caller, the configuration   *)
(* directory, and the configuration file.  The file is modelled at the     *)
(* level of a GKeyFile: for every key the raw text stored for it (or its   *)
(* absence).  The GKeyFile accessors the code calls are modelled by what   *)
(* they do to that raw text: g_key_file_set_integer/get_integer format and *)
(* parse a signed 32-bit gint, g_key_file_set_boolean/get_boolean write    *)
(* and accept the literals true/false (and read 1/0), and                  *)
(* g_key_file_set_string/get_string escape and unescape the value and      *)
(* reject values that are not UTF-8.                                       *)
(*                                                                         *)
(* 32-bit quantities are kept exactly as two 16-bit limbs [hi, lo] (value  *)
(* hi * 65536 + lo); an integer literal in the file is a sign and a        *)
(* magnitude in the same form.                                             *)
(***************************************************************************)
EXTENDS Integers, Sequences, FiniteSets, TLC

VARIABLES
    config,     \* the caller's FsearchConfig record
    dirExists,  \* the configuration directory exists
    file,       \* the configuration file
    op,         \* the operation that ran last
    ret,        \* what it returned
    pre,        \* the record and the file that operation started from (after an
                \* edit from outside: the record and the file the edit left)
    saved,      \* the record of the last successful save, while the file is still its output
    edits       \* changes made from outside so far

vars == <<config, dirExists, file, op, ret, pre, saved, edits>>

---------------------------------------------------------------------------
(* Bounds *)

\* Longest locations list of a record, and highest location_<n> key of a file.
MaxLocs == 3
\* Number of changes made from outside the module (the caller writing record
\* fields, the user editing the file) in one behaviour.
MaxEdits == 1

---------------------------------------------------------------------------
(* Keys of the file, which are also the fields of the record *)

InterfaceKeys ==
    {"enable_list_tooltips", "enable_dark_theme", "show_menubar",
     "show_statusbar", "show_filter", "show_search_button"}

SearchBoolKeys == {"match_case", "enable_regex", "search_in_path", "limit_results"}

BoolKeys == InterfaceKeys \cup SearchBoolKeys

ScalarKeys == BoolKeys \cup {"num_results"}

---------------------------------------------------------------------------
(* 32-bit integers *)

Base == 65536
HalfBase == 32768

U32(h, l) == [hi |-> h, lo |-> l]

\* A decimal integer literal: sign and magnitude hi * Base + lo.
Lit(n, h, l) == [neg |-> n, hi |-> h, lo |-> l]

\* 2^32 - m for a magnitude 0 < m <= 2^32 given as limbs.
Complement(h, l) ==
    IF l = 0 THEN [hi |-> Base - h, lo |-> 0]
             ELSE [hi |-> Base - 1 - h, lo |-> Base - l]

\* uint32_t passed where a gint is expected, then printed with %d.
FormatInteger(u) ==
    IF u.hi >= HalfBase
    THEN LET m == Complement(u.hi, u.lo) IN Lit(TRUE, m.hi, m.lo)
    ELSE Lit(FALSE, u.hi, u.lo)

\* The literal fits a gint: -2^31 <= value <= 2^31 - 1.
InGintRange(n) ==
    IF n.neg THEN n.hi < HalfBase \/ (n.hi = HalfBase /\ n.lo = 0)
             ELSE n.hi < HalfBase

\* gint assigned to a uint32_t.
GintToUint32(n) ==
    IF n.neg /\ (n.hi # 0 \/ n.lo # 0)
    THEN LET m == Complement(n.hi, n.lo) IN U32(m.hi, m.lo)
    ELSE U32(n.hi, n.lo)

---------------------------------------------------------------------------
(* Raw values of scalar keys *)

Absent == [k |-> "absent", s |-> "", neg |-> FALSE, hi |-> 0, lo |-> 0]
Txt(t) == [k |-> "text", s |-> t, neg |-> FALSE, hi |-> 0, lo |-> 0]
IntLit(n, h, l) == [k |-> "int", s |-> "", neg |-> n, hi |-> h, lo |-> l]

\* Result of a GKeyFile getter: the error it sets and the value it returns.
NoError == "none"
KeyNotFound == "G_KEY_FILE_ERROR_KEY_NOT_FOUND"
InvalidValue == "G_KEY_FILE_ERROR_INVALID_VALUE"
UnknownEncoding == "G_KEY_FILE_ERROR_UNKNOWN_ENCODING"

\* g_key_file_get_boolean
GetBoolean(raw) ==
    CASE raw.k = "absent" -> [err |-> KeyNotFound, val |-> FALSE]
      [] raw.k = "text" /\ raw.s = "true" -> [err |-> NoError, val |-> TRUE]
      [] raw.k = "text" /\ raw.s = "false" -> [err |-> NoError, val |-> FALSE]
      [] raw.k = "int" /\ ~raw.neg /\ raw.hi = 0 /\ raw.lo = 1 ->
             [err |-> NoError, val |-> TRUE]
      [] raw.k = "int" /\ ~raw.neg /\ raw.hi = 0 /\ raw.lo = 0 ->
             [err |-> NoError, val |-> FALSE]
      [] OTHER -> [err |-> InvalidValue, val |-> FALSE]

\* g_key_file_get_integer: a gint, then assigned to a uint32_t.
GetInteger(raw) ==
    CASE raw.k = "absent" -> [err |-> KeyNotFound, val |-> U32(0, 0)]
      [] raw.k = "int" /\ InGintRange(raw) ->
             [err |-> NoError, val |-> GintToUint32(raw)]
      [] OTHER -> [err |-> InvalidValue, val |-> U32(0, 0)]

\* config_load_boolean without the assignment of default_value on an error.
ConfigLoadBooleanNoDefault(raw, default_value) == GetBoolean(raw).val

\* config_load_boolean
ConfigLoadBoolean(raw, default_value) ==
    LET r == GetBoolean(raw)
    IN  IF r.err # NoError THEN default_value ELSE r.val

\* config_load_integer
ConfigLoadInteger(raw, default_value) ==
    LET r == GetInteger(raw)
    IN  IF r.err # NoError THEN default_value ELSE r.val

---------------------------------------------------------------------------
(* Strings: sequences of bytes.  "LF" is a newline, "CR" a carriage        *)
(* return, "TAB" a tab, "BS" a backslash, "SP" a space, "xFF" a byte that  *)
(* is not valid UTF-8.                                                     *)

IsUtf8(s) == \A i \in 1..Len(s) : s[i] # "xFF"

RECURSIVE EscapeFrom(_, _, _)
EscapeFrom(s, i, leading) ==
    IF i > Len(s) THEN <<>>
    ELSE CASE s[i] = "SP" /\ leading -> <<"BS", "s">> \o EscapeFrom(s, i + 1, TRUE)
           [] s[i] = "TAB" /\ leading -> <<"BS", "t">> \o EscapeFrom(s, i + 1, TRUE)
           [] s[i] = "LF" -> <<"BS", "n">> \o EscapeFrom(s, i + 1, FALSE)
           [] s[i] = "CR" -> <<"BS", "r">> \o EscapeFrom(s, i + 1, FALSE)
           [] s[i] = "BS" -> <<"BS", "BS">> \o EscapeFrom(s, i + 1, FALSE)
           [] OTHER -> <<s[i]>> \o EscapeFrom(s, i + 1, FALSE)

\* g_key_file_set_string: the raw text stored for a string.  Leading spaces
\* and tabs, newlines, carriage returns and backslashes are escaped.
EscapeString(s) == EscapeFrom(s, 1, TRUE)

RECURSIVE UnescapeFrom(_, _)
UnescapeFrom(r, i) ==
    IF i > Len(r) THEN [ok |-> TRUE, val |-> <<>>]
    ELSE IF r[i] = "BS"
         THEN IF i = Len(r) THEN [ok |-> FALSE, val |-> <<>>]
              ELSE LET c == r[i + 1]
                       rest == UnescapeFrom(r, i + 2)
                   IN  CASE c = "s" -> [ok |-> rest.ok, val |-> <<"SP">> \o rest.val]
                         [] c = "n" -> [ok |-> rest.ok, val |-> <<"LF">> \o rest.val]
                         [] c = "t" -> [ok |-> rest.ok, val |-> <<"TAB">> \o rest.val]
                         [] c = "r" -> [ok |-> rest.ok, val |-> <<"CR">> \o rest.val]
                         [] c = "BS" -> [ok |-> rest.ok, val |-> <<"BS">> \o rest.val]
                         [] OTHER -> [ok |-> FALSE, val |-> <<>>]
         ELSE LET rest == UnescapeFrom(r, i + 1)
              IN  [ok |-> rest.ok, val |-> <<r[i]>> \o rest.val]

NoLoc == [present |-> FALSE, raw |-> <<>>]
RawLoc(r) == [present |-> TRUE, raw |-> r]

\* g_key_file_get_string
GetString(rl) ==
    IF ~rl.present THEN [err |-> KeyNotFound, val |-> <<>>]
    ELSE IF ~IsUtf8(rl.raw) THEN [err |-> UnknownEncoding, val |-> <<>>]
    ELSE LET u == UnescapeFrom(rl.raw, 1)
         IN  IF u.ok THEN [err |-> NoError, val |-> u.val]
                     ELSE [err |-> InvalidValue, val |-> <<>>]

\* config_load_string with default_value NULL: found says the result is not NULL.
ConfigLoadString(rl) ==
    LET r == GetString(rl)
    IN  IF r.err # NoError THEN [found |-> FALSE, val |-> <<>>]
                           ELSE [found |-> TRUE, val |-> r.val]

---------------------------------------------------------------------------
(* The record and the file *)

\* A record as calloc leaves it.
ZeroConfig ==
    [enable_list_tooltips |-> FALSE, enable_dark_theme |-> FALSE,
     show_menubar |-> FALSE, show_statusbar |-> FALSE, show_filter |-> FALSE,
     show_search_button |-> FALSE, match_case |-> FALSE, enable_regex |-> FALSE,
     search_in_path |-> FALSE, limit_results |-> FALSE,
     num_results |-> U32(0, 0), locations |-> <<>>]

LocIdx == 1..MaxLocs

NoFile == [kind |-> "missing", sc |-> [k \in ScalarKeys |-> Absent],
           loc |-> [i \in LocIdx |-> NoLoc]]

\* A file g_key_file_load_from_file rejects: unreadable, or not a key file.
BadFile == [kind |-> "unparseable", sc |-> [k \in ScalarKeys |-> Absent],
            loc |-> [i \in LocIdx |-> NoLoc]]

EmptyKeyFile == [kind |-> "keyfile", sc |-> [k \in ScalarKeys |-> Absent],
                 loc |-> [i \in LocIdx |-> NoLoc]]

\* A loop that goes on after a key it cannot read.
LoadLocationsSkipGaps(f, pos) ==
    LET Found == {i \in LocIdx : i >= pos /\ ConfigLoadString(f.loc[i]).found}
        Nth[n \in 0..MaxLocs] ==
            IF n = 0 THEN <<>>
            ELSE LET i == CHOOSE j \in Found :
                              Cardinality({m \in Found : m < j}) = n - 1
                 IN  Append(Nth[n - 1], ConfigLoadString(f.loc[i]).val)
    IN  Nth[Cardinality(Found)]

\* The while loop of load_config: the strings appended to config->locations.
RECURSIVE LoadLocations(_, _)
LoadLocations(f, pos) ==
    IF pos > MaxLocs THEN <<>>
    ELSE LET value == ConfigLoadString(f.loc[pos])
         IN  IF value.found THEN <<value.val>> \o LoadLocations(f, pos + 1)
                            ELSE <<>>

\* load_default_config without the reset of locations.
LoadDefaultConfigKeepLocations(c) ==
    [enable_list_tooltips |-> TRUE, enable_dark_theme |-> FALSE,
     show_menubar |-> TRUE, show_statusbar |-> TRUE, show_filter |-> TRUE,
     show_search_button |-> TRUE, match_case |-> FALSE, enable_regex |-> FALSE,
     search_in_path |-> FALSE, limit_results |-> TRUE,
     num_results |-> U32(0, 10000), locations |-> c.locations]

\* load_default_config: the record it leaves.
LoadDefaultConfigResult(c) ==
    [match_case |-> FALSE, enable_regex |-> FALSE, search_in_path |-> FALSE,
     limit_results |-> TRUE, num_results |-> U32(0, 10000),
     enable_dark_theme |-> FALSE, enable_list_tooltips |-> TRUE,
     show_menubar |-> TRUE, show_statusbar |-> TRUE, show_filter |-> TRUE,
     show_search_button |-> TRUE, locations |-> <<>>]

\* The branch of load_config taken when the file was loaded.
LoadedRecord(c, f) ==
    [enable_list_tooltips |-> ConfigLoadBoolean(f.sc["enable_list_tooltips"], TRUE),
     enable_dark_theme |-> ConfigLoadBoolean(f.sc["enable_dark_theme"], FALSE),
     show_menubar |-> ConfigLoadBoolean(f.sc["show_menubar"], TRUE),
     show_statusbar |-> ConfigLoadBoolean(f.sc["show_statusbar"], TRUE),
     show_filter |-> ConfigLoadBoolean(f.sc["show_filter"], TRUE),
     show_search_button |-> ConfigLoadBoolean(f.sc["show_search_button"], TRUE),
     match_case |-> ConfigLoadBoolean(f.sc["match_case"], FALSE),
     enable_regex |-> ConfigLoadBoolean(f.sc["enable_regex"], FALSE),
     search_in_path |-> ConfigLoadBoolean(f.sc["search_in_path"], FALSE),
     limit_results |-> ConfigLoadBoolean(f.sc["limit_results"], FALSE),
     num_results |-> ConfigLoadInteger(f.sc["num_results"], U32(0, 10000)),
     locations |-> c.locations \o LoadLocations(f, 1)]

\* A load_config that falls back to the defaults itself when the file fails.
LoadConfigDefaultsOnFailure(c, f) ==
    IF f.kind = "keyfile"
    THEN [config |-> LoadedRecord(c, f), ret |-> TRUE]
    ELSE [config |-> LoadDefaultConfigResult(c), ret |-> FALSE]

\* load_config: the record it leaves and what it returns.
LoadConfigResult(c, f) ==
    IF f.kind = "keyfile"
    THEN [config |-> LoadedRecord(c, f), ret |-> TRUE]
    ELSE [config |-> c, ret |-> FALSE]

\* The GKeyFile save_config builds from the record.
KeyFileOf(c) ==
    [kind |-> "keyfile",
     sc |-> [k \in ScalarKeys |->
                IF k = "num_results"
                THEN LET n == FormatInteger(c.num_results)
                     IN  IntLit(n.neg, n.hi, n.lo)
                ELSE IF c[k] THEN Txt("true") ELSE Txt("false")],
     loc |-> [i \in LocIdx |->
                IF i <= Len(c.locations) THEN RawLoc(EscapeString(c.locations[i]))
                                         ELSE NoLoc]]

\* A save_config that releases the list it has written.
SaveConfigFreesLocations(c, f, written) ==
    [config |-> [c EXCEPT !.locations = <<>>],
     file |-> IF written THEN KeyFileOf(c) ELSE f,
     ret |-> written]

\* A save_config that keeps the location keys of the file it overwrites.
SaveConfigMergesIntoFile(c, f, written) ==
    LET new == KeyFileOf(c)
    IN  [config |-> c,
         file |-> IF ~written THEN f
                  ELSE IF f.kind # "keyfile" THEN new
                  ELSE [new EXCEPT !.loc = [i \in LocIdx |->
                            IF new.loc[i].present THEN new.loc[i] ELSE f.loc[i]]],
         ret |-> written]

\* save_config: the record and the file it leaves and what it returns;
\* written says g_key_file_save_to_file succeeded.
SaveConfigResult(c, f, written) ==
    [config |-> c,
     file |-> IF written THEN KeyFileOf(c) ELSE f,
     ret |-> written]

NoSaved == [valid |-> FALSE, rec |-> ZeroConfig]

---------------------------------------------------------------------------
(* Values the caller and the user supply *)

\* num_results values the caller stores: 2^31 - 1, 2^31 and 2^32 - 1.
NumInputs == {U32(32767, 65535), U32(32768, 0), U32(65535, 65535)}

\* Paths the caller adds: "/a", a path with leading and trailing blanks, a
\* backslash, a newline and a carriage return, and a path with a byte that
\* is not UTF-8.
PathInputs ==
    {<<"/", "a">>,
     <<"SP", "TAB", "/", "BS", "n", "LF", "CR", "TAB", "SP">>,
     <<"/", "xFF">>}

Unique(seq) == \A i, j \in 1..Len(seq) : i # j => seq[i] # seq[j]

\* Lists of locations the caller stores: unique paths, at most MaxLocs.
LocationLists ==
    {l \in UNION {[1..n -> PathInputs] : n \in 0..MaxLocs} : Unique(l)}

\* true, 0, notabool, and no key
RawBoolInputs == {Txt("true"), IntLit(FALSE, 0, 0), Txt("notabool"), Absent}

\* 500, -5, 3000000000, abc, and no key
RawNumInputs ==
    {IntLit(FALSE, 0, 500), IntLit(TRUE, 0, 5), IntLit(FALSE, 45776, 24064),
     Txt("abc"), Absent}

RawScalarInputs(k) == IF k = "num_results" THEN RawNumInputs ELSE RawBoolInputs

\* What the user writes under location_<i>: the path "/<i>", or no key.
RawLocInput(i, written) == IF written THEN RawLoc(<<"/", ToString(i)>>) ELSE NoLoc

\* "/\q": an escape sequence GKeyFile does not know.
BadEscape == RawLoc(<<"/", "BS", "q">>)

---------------------------------------------------------------------------
(* Operations *)

Init ==
    /\ config = ZeroConfig
    /\ dirExists = FALSE
    /\ file = NoFile
    /\ op = "init"
    /\ ret = TRUE
    /\ pre = [config |-> ZeroConfig, file |-> NoFile]
    /\ saved = NoSaved
    /\ edits = 0

\* make_config_dir: g_mkdir_with_parents creates the directory or fails.
MakeConfigDir ==
    \E created \in BOOLEAN :
        /\ dirExists' = (dirExists \/ created)
        /\ ret' = (dirExists \/ created)
        /\ op' = "make_config_dir"
        /\ pre' = [config |-> config, file |-> file]
        /\ UNCHANGED <<config, file, saved, edits>>

\* load_config; the guard caps the length of the list, which every load of a
\* file with locations grows.
LoadConfig ==
    LET r == LoadConfigResult(config, file)
    IN  /\ Len(r.config.locations) <= MaxLocs
        /\ config' = r.config
        /\ ret' = r.ret
        /\ op' = "load_config"
        /\ pre' = [config |-> config, file |-> file]
        /\ UNCHANGED <<dirExists, file, saved, edits>>

\* load_default_config
LoadDefaultConfig ==
    /\ config' = LoadDefaultConfigResult(config)
    /\ ret' = TRUE
    /\ op' = "load_default_config"
    /\ pre' = [config |-> config, file |-> file]
    /\ UNCHANGED <<dirExists, file, saved, edits>>

\* save_config: the write fails without the directory, and may fail with it.
SaveConfig ==
    \E ioOk \in BOOLEAN :
        LET r == SaveConfigResult(config, file, dirExists /\ ioOk)
        IN  /\ config' = r.config
            /\ file' = r.file
            /\ ret' = r.ret
            /\ op' = "save_config"
            /\ pre' = [config |-> config, file |-> file]
            /\ saved' = IF r.ret THEN [valid |-> TRUE, rec |-> config] ELSE saved
            /\ UNCHANGED <<dirExists, edits>>

\* The caller writes a field of the record.
CallerEdit(c) ==
    /\ edits < MaxEdits
    /\ c # config
    /\ config' = c
    /\ edits' = edits + 1
    /\ op' = "caller_edit"
    /\ ret' = TRUE
    /\ pre' = [config |-> c, file |-> file]
    /\ UNCHANGED <<dirExists, file, saved>>

SetBoolField ==
    \E k \in BoolKeys : CallerEdit([config EXCEPT ![k] = ~config[k]])

SetNumResults ==
    \E u \in NumInputs : CallerEdit([config EXCEPT !.num_results = u])

\* The caller replaces the list of locations by a list of unique paths.
SetLocations ==
    \E l \in LocationLists : CallerEdit([config EXCEPT !.locations = l])

\* The user changes the file with an editor.
UserEdit(f) ==
    /\ edits < MaxEdits
    /\ f # file
    /\ file' = f
    /\ dirExists' = (dirExists \/ f.kind # "missing")
    /\ edits' = edits + 1
    /\ saved' = NoSaved
    /\ op' = "user_edit"
    /\ ret' = TRUE
    /\ pre' = [config |-> config, file |-> f]
    /\ UNCHANGED config

EditableFile == IF file.kind = "keyfile" THEN file ELSE EmptyKeyFile

UserSetScalar ==
    \E k \in ScalarKeys : \E raw \in RawScalarInputs(k) :
        UserEdit([EditableFile EXCEPT !.sc[k] = raw])

\* The user rewrites the Database group.
UserSetLocations ==
    \E g \in [LocIdx -> BOOLEAN] :
        UserEdit([EditableFile EXCEPT !.loc = [i \in LocIdx |-> RawLocInput(i, g[i])]])

\* The user leaves a value GKeyFile cannot read under one location key.
UserBreakLocation ==
    \E i \in LocIdx : UserEdit([EditableFile EXCEPT !.loc[i] = BadEscape])

UserBreakFile == UserEdit(BadFile)

UserDeleteFile == UserEdit(NoFile)

Next ==
    \/ MakeConfigDir
    \/ LoadConfig
    \/ LoadDefaultConfig
    \/ SaveConfig
    \/ SetBoolField
    \/ SetNumResults
    \/ SetLocations
    \/ UserSetScalar
    \/ UserSetLocations
    \/ UserBreakLocation
    \/ UserBreakFile
    \/ UserDeleteFile

Spec == Init /\ [][Next]_vars

---------------------------------------------------------------------------
(* What the specification documents, stated independently of the code *)

\* The defaults of load_default_config.
DocumentedDefaults ==
    [enable_list_tooltips |-> TRUE, enable_dark_theme |-> FALSE,
     show_menubar |-> TRUE, show_statusbar |-> TRUE, show_filter |-> TRUE,
     show_search_button |-> TRUE, match_case |-> FALSE, enable_regex |-> FALSE,
     search_in_path |-> FALSE, limit_results |-> TRUE,
     num_results |-> U32(0, 10000), locations |-> <<>>]

\* The default load_config uses for a field the file does not give:
\* as DocumentedDefaults, but limit_results is false.
PerFieldDefault(k) == IF k = "limit_results" THEN FALSE ELSE DocumentedDefaults[k]

IsBoolLiteral(raw) ==
    \/ raw.k = "text" /\ raw.s \in {"true", "false"}
    \/ raw.k = "int" /\ ~raw.neg /\ raw.hi = 0 /\ raw.lo \in {0, 1}

BoolLiteralValue(raw) ==
    IF raw.k = "text" THEN raw.s = "true" ELSE raw.lo = 1

\* A decimal literal of an unsigned 32-bit integer.
IsUintLiteral(raw) == raw.k = "int" /\ ~raw.neg /\ raw.hi < Base

\* The value of a key is of the wrong type: not a boolean literal under a
\* boolean key, not an integer literal under num_results.
WrongType(k, raw) ==
    /\ raw.k # "absent"
    /\ IF k = "num_results" THEN raw.k # "int" ELSE ~IsBoolLiteral(raw)

Loaded == op = "load_config" /\ ret

---------------------------------------------------------------------------
(* C1 *)

\* C1: after a successful save of a record with a non-empty list of unique
\* locations, loading the file it wrote into a freshly defaulted record gives
\* a record equal to the saved one, scalar fields and locations in order.
C1_RoundTrip ==
    ( /\ Loaded
      /\ saved.valid
      /\ saved.rec.locations # <<>>
      /\ Unique(saved.rec.locations)
      /\ pre.config = DocumentedDefaults )
    => config = saved.rec

---------------------------------------------------------------------------
(* C2 *)

\* C2: load_default_config returns true and leaves exactly the documented
\* defaults and no locations, whatever the record held.
C2_DefaultsExact ==
    op = "load_default_config" =>
        /\ ret
        /\ config.enable_list_tooltips = TRUE
        /\ config.enable_dark_theme = FALSE
        /\ config.show_menubar = TRUE
        /\ config.show_statusbar = TRUE
        /\ config.show_filter = TRUE
        /\ config.show_search_button = TRUE
        /\ config.match_case = FALSE
        /\ config.enable_regex = FALSE
        /\ config.search_in_path = FALSE
        /\ config.limit_results = TRUE
        /\ config.num_results = U32(0, 10000)
        /\ config.locations = <<>>

\* load_default_config ran on a record that had locations, limit_results
\* false and another num_results.
C2_Witness ==
    /\ op = "load_default_config"
    /\ pre.config.locations # <<>>
    /\ ~pre.config.limit_results
    /\ pre.config.num_results # U32(0, 10000)

---------------------------------------------------------------------------
(* C3 *)

\* C3: after a successful load every scalar field whose key is absent has its
\* per-field default, and every scalar field whose key holds a valid value of
\* the field's type has that value.
C3_PartialFile ==
    Loaded =>
        /\ \A k \in BoolKeys :
              /\ file.sc[k] = Absent => config[k] = PerFieldDefault(k)
              /\ IsBoolLiteral(file.sc[k]) => config[k] = BoolLiteralValue(file.sc[k])
        /\ file.sc["num_results"] = Absent => config.num_results = U32(0, 10000)
        /\ IsUintLiteral(file.sc["num_results"]) =>
              config.num_results = U32(file.sc["num_results"].hi, file.sc["num_results"].lo)

---------------------------------------------------------------------------
(* C4 *)

WithoutKey(f, k) == [f EXCEPT !.sc[k] = Absent]

---------------------------------------------------------------------------
(* C5 *)

KeyPresent(i) == i \in LocIdx /\ file.loc[i].present

Readable(i) == i \in LocIdx /\ GetString(file.loc[i]).err = NoError

\* The strings a load appended to the list the record had.
Appended == SubSeq(config.locations, Len(pre.config.locations) + 1, Len(config.locations))

FirstAbsent ==
    CHOOSE k \in 1..(MaxLocs + 1) : ~KeyPresent(k) /\ \A i \in 1..(k - 1) : KeyPresent(i)

FirstUnreadable ==
    CHOOSE k \in 1..(MaxLocs + 1) : ~Readable(k) /\ \A i \in 1..(k - 1) : Readable(i)

\* C5 as stated: the load stops at the first index whose key is absent and
\* loads exactly the keys before it.
C5_StopsAtFirstAbsent ==
    Loaded =>
        /\ Len(Appended) = FirstAbsent - 1
        /\ \A i \in 1..Len(Appended) : Readable(i) /\ Appended[i] = GetString(file.loc[i]).val

\* C5 (amended): the load stops at the first index whose key is absent or
\* whose value cannot be read as a string (not UTF-8, or an invalid escape
\* sequence); it appends exactly the values of the keys before that index, in
\* index order, and nothing from any later key.
C5_StopsAtFirstUnreadable ==
    Loaded =>
        /\ Len(Appended) = FirstUnreadable - 1
        /\ \A i \in 1..Len(Appended) : Appended[i] = GetString(file.loc[i]).val
        /\ SubSeq(config.locations, 1, Len(pre.config.locations)) = pre.config.locations

\* location_1 and location_3 are present and readable, location_2 is absent,
\* and the load appended location_1 only.
C5_Witness ==
    /\ Loaded
    /\ Readable(1) /\ ~KeyPresent(2) /\ Readable(3)
    /\ Appended = <<GetString(file.loc[1]).val>>

---------------------------------------------------------------------------
(* C6 *)

\* C6: when the file is missing or cannot be parsed, load_config returns
\* false and leaves every field of the record, locations included, as it was.
C6_FailedLoadLeavesRecord ==
    (op = "load_config" /\ file.kind # "keyfile") => (~ret /\ config = pre.config)

\* A load failed for want of the file, with a record that held locations.
C6_Witness ==
    /\ op = "load_config" /\ ~ret
    /\ file.kind = "missing"
    /\ config.locations # <<>>

---------------------------------------------------------------------------
(* C7 *)

\* C7: save_config leaves the record as it was, whether it succeeds or fails.
C7_SaveLeavesRecord == op = "save_config" => config = pre.config

\* A save failed for want of the directory, on a record with locations.
C7_Witness ==
    /\ op = "save_config" /\ ~ret
    /\ ~dirExists
    /\ config.locations # <<>>

---------------------------------------------------------------------------
(* C8 *)

\* C8: after a successful save the file holds the eleven scalar keys with
\* the record's values and exactly the keys location_1..location_N for the
\* record's N locations, in list order, whatever the file held before.
C8_FileIsLastSavedRecord ==
    (op = "save_config" /\ ret) =>
        /\ file.kind = "keyfile"
        /\ \A k \in BoolKeys : file.sc[k] = Txt(IF config[k] THEN "true" ELSE "false")
        /\ file.sc["num_results"].k = "int"
        /\ GintToUint32(file.sc["num_results"]) = config.num_results
        /\ \A i \in LocIdx :
              /\ file.loc[i].present <=> i <= Len(config.locations)
              /\ file.loc[i].present => file.loc[i].raw = EscapeString(config.locations[i])

\* A save succeeded over a file that had a location key beyond the record's
\* list.
C8_Witness ==
    /\ op = "save_config" /\ ret
    /\ pre.file.kind = "keyfile"
    /\ \E i \in LocIdx : i > Len(config.locations) /\ pre.file.loc[i].present

---------------------------------------------------------------------------
(* C9 *)

\* C9: the record a successful load leaves depends on the file only: it is
\* the record the same load leaves in an empty record.
C9_LoadDependsOnFileOnly ==
    Loaded => config = LoadConfigResult(ZeroConfig, file).config

---------------------------------------------------------------------------
(* C10 *)

\* C10: after a successful load num_results is the non-negative integer
\* written in the file or the default 10000.
C10_NumResultsUnsignedOrDefault ==
    Loaded =>
        \/ config.num_results = U32(0, 10000)
        \/ /\ IsUintLiteral(file.sc["num_results"])
           /\ config.num_results =
                 U32(file.sc["num_results"].hi, file.sc["num_results"].lo)

=============================================================================
